---- MODULE Spec2Model ----
(***************************************************************************)
(* Model of the RAG chat API of apps/api/src/index.js (the second, RAG      *)
(* revision of the file, lines 111-461): POST /rag/ingest and POST /chat,   *)
(* the chunker, the cosine-similarity retriever and the sqlite row store.   *)
(*                                                                          *)
(* Node runs a handler without interruption up to its next `await`; every   *)
(* action below is one such run: it starts at the event that resumes the    *)
(* handler (the request arriving, a fetch settling, a body read settling,   *)
(* the abort timer firing) and ends at the next await or at the response.   *)
(***************************************************************************)
EXTENDS Integers, Sequences, FiniteSets, TLC

VARIABLES
    env,        \* process.env, read-only after start-up
    store,      \* the rows of table rag_chunks, in rowid order
    uuids,      \* how many ids crypto.randomUUID() has handed out
    req         \* per request slot: the handler's position and locals

vars == <<env, store, uuids, req>>

(***************************************************************************)
(* Bounds of the model.                                                     *)
(***************************************************************************)
MaxReqs == 2
MaxScanRows == 3

Slots == 1..MaxReqs

(***************************************************************************)
(* JavaScript values.  A number is [n |-> i, frac |-> f], the value i, or   *)
(* i + 1/2 when f holds, so that a non-integer can be written.  Str is a    *)
(* non-numeric string standing where a number is expected, Bool(b) a        *)
(* boolean, Absent a key the object does not have (undefined).              *)
(***************************************************************************)
Num(i) == [n |-> i, frac |-> FALSE]
NumHalf(i) == [n |-> i, frac |-> TRUE]
Str == [s |-> "x"]
Bool(b) == [b |-> b]
Absent == [absent |-> TRUE]
IsNumber(v) == "n" \in DOMAIN v
IsBoolean(v) == "b" \in DOMAIN v
IsAbsent(v) == "absent" \in DOMAIN v
IsInt(v) == IsNumber(v) /\ ~v.frac
AtLeast(v, k) == v.n >= k
AtMost(v, k) == v.n < k \/ (v.n = k /\ ~v.frac)
Positive(v) == v.n > 0 \/ (v.n = 0 /\ v.frac)

\* Text is a sequence of characters; LF, CR and SP name the three
\* whitespace characters the chunker can meet.
IsSpace(c) == c \in {"SP", "LF", "CR"}

(***************************************************************************)
(* chunkText (index.js 172-198).                                            *)
(***************************************************************************)
RECURSIVE ReplaceCRLF(_)
ReplaceCRLF(s) ==
    IF Len(s) = 0 THEN <<>>
    ELSE IF Len(s) >= 2 /\ s[1] = "CR" /\ s[2] = "LF"
         THEN <<"LF">> \o ReplaceCRLF(SubSeq(s, 3, Len(s)))
         ELSE <<s[1]>> \o ReplaceCRLF(Tail(s))

RECURSIVE LFRun(_, _)
LFRun(s, i) ==
    IF i <= Len(s) /\ s[i] = "LF" THEN 1 + LFRun(s, i + 1) ELSE 0

\* String.prototype.split(/\n\n+/): a run of two or more LF separates,
\* a single LF stays in its part; the result has at least one part.
RECURSIVE SplitParagraphs(_, _, _)
SplitParagraphs(s, i, cur) ==
    IF i > Len(s) THEN <<cur>>
    ELSE IF LFRun(s, i) >= 2
         THEN <<cur>> \o SplitParagraphs(s, i + LFRun(s, i), <<>>)
         ELSE SplitParagraphs(s, i + 1, Append(cur, s[i]))

RECURSIVE TrimStart(_)
TrimStart(s) ==
    IF Len(s) > 0 /\ IsSpace(s[1]) THEN TrimStart(Tail(s)) ELSE s

RECURSIVE TrimEnd(_)
TrimEnd(s) ==
    IF Len(s) > 0 /\ IsSpace(s[Len(s)])
    THEN TrimEnd(SubSeq(s, 1, Len(s) - 1)) ELSE s

Trim(s) == TrimEnd(TrimStart(s))

\* A variant without the .filter(Boolean) of line 178.
FilterNothing(ps) == ps

RECURSIVE FilterNonEmpty(_)
FilterNonEmpty(ps) ==
    IF Len(ps) = 0 THEN <<>>
    ELSE IF Len(Head(ps)) > 0
         THEN <<Head(ps)>> \o FilterNonEmpty(Tail(ps))
         ELSE FilterNonEmpty(Tail(ps))

\* A variant that keeps the white space around each paragraph.
PartsUntrimmed(text) ==
    FilterNonEmpty(SplitParagraphs(ReplaceCRLF(text), 1, <<>>))

Parts(text) ==
    LET normalized == ReplaceCRLF(text)
        split == SplitParagraphs(normalized, 1, <<>>)
    IN  FilterNonEmpty([k \in 1..Len(split) |-> Trim(split[k])])

Min(a, b) == IF a <= b THEN a ELSE b
Max(a, b) == IF a >= b THEN a ELSE b

\* String.prototype.slice(start, end) for 0 <= start, 0 <= end <= length.
Slice(s, start, end) == SubSeq(s, start + 1, end)

\* A variant whose next window starts where the last one ended.
RECURSIVE SlideWindowNoOverlap(_, _, _, _, _)
SlideWindowNoOverlap(part, start, maxLen, overlap, fuel) ==
    IF fuel = 0 \/ ~(start < Len(part)) THEN <<>>
    ELSE LET end == Min(Len(part), start + maxLen)
         IN  IF end >= Len(part)
             THEN <<Slice(part, start, end)>>
             ELSE <<Slice(part, start, end)>>
                  \o SlideWindowNoOverlap(part, end, maxLen, overlap, fuel - 1)

\* The while loop of lines 189-194.  `fuel` counts the iterations left;
\* the loop of the source has no such count, and a run that uses it up is
\* a run the source never ends (see WindowDiverges).
RECURSIVE SlideWindow(_, _, _, _, _)
SlideWindow(part, start, maxLen, overlap, fuel) ==
    IF fuel = 0 \/ ~(start < Len(part)) THEN <<>>
    ELSE LET end == Min(Len(part), start + maxLen)
         IN  IF end >= Len(part)
             THEN <<Slice(part, start, end)>>
             ELSE <<Slice(part, start, end)>>
                  \o SlideWindow(part, Max(0, end - overlap), maxLen, overlap, fuel - 1)

RECURSIVE WindowDiverges(_, _, _, _, _)
WindowDiverges(part, start, maxLen, overlap, fuel) ==
    IF ~(start < Len(part)) THEN FALSE
    ELSE IF fuel = 0 THEN TRUE
    ELSE LET end == Min(Len(part), start + maxLen)
         IN  IF end >= Len(part) THEN FALSE
             ELSE WindowDiverges(part, Max(0, end - overlap), maxLen, overlap, fuel - 1)

RECURSIVE ChunkParts(_, _, _)
ChunkParts(parts, maxLen, overlap) ==
    IF Len(parts) = 0 THEN <<>>
    ELSE LET part == Head(parts)
         IN  (IF Len(part) <= maxLen
              THEN <<part>>
              ELSE SlideWindow(part, 0, maxLen, overlap, Len(part) + 1))
             \o ChunkParts(Tail(parts), maxLen, overlap)

chunkText(text, maxLen, overlap) == ChunkParts(Parts(text), maxLen, overlap)

\* The inputs on which the while loop of lines 189-194 never ends: some
\* part is longer than maxLen and `start` does not advance.
chunkTextDiverges(text, maxLen, overlap) ==
    \E k \in 1..Len(Parts(text)) :
        /\ Len(Parts(text)[k]) > maxLen
        /\ WindowDiverges(Parts(text)[k], 0, maxLen, overlap, Len(Parts(text)[k]) + 1)

(***************************************************************************)
(* The request schemas (index.js 154-170).  zod's optional() accepts a      *)
(* missing key; z.object strips keys the schema does not name.              *)
(***************************************************************************)
TemperatureMax == 2
MaxTokensMax == 8192
TopKMax == 10

MessageOk(m) == m.role \in {"user", "assistant"} /\ m.content # ""

MessagesOk(ms) == ~IsAbsent(ms) /\ \A k \in 1..Len(ms.list) : MessageOk(ms.list[k])

TemperatureOk(v) == IsAbsent(v) \/ (IsNumber(v) /\ AtLeast(v, 0) /\ AtMost(v, TemperatureMax))

MaxTokensOk(v) == IsAbsent(v) \/ (IsInt(v) /\ Positive(v) /\ AtMost(v, MaxTokensMax))

UseRagOk(v) == IsAbsent(v) \/ IsBoolean(v)

\* A variant without the upper bound.
TopKOkUnbounded(v) == IsAbsent(v) \/ (IsInt(v) /\ Positive(v))

TopKOk(v) == IsAbsent(v) \/ (IsInt(v) /\ Positive(v) /\ AtMost(v, TopKMax))

ChatRequestSchema(body) ==
    /\ MessagesOk(body.messages)
    /\ TemperatureOk(body.temperature)
    /\ MaxTokensOk(body.max_tokens)
    /\ UseRagOk(body.use_rag)
    /\ TopKOk(body.top_k)

RagIngestSchema(body) == body.source # "" /\ Len(body.text) >= 1

(***************************************************************************)
(* dot, norm, cosineSim (index.js 200-214), in exact arithmetic.  A JS      *)
(* number that may be NaN is [nan |-> b, v |-> i].  norm is kept squared;   *)
(* a score is [nan, d, q], the value d / sqrt(q) with q > 0.                *)
(***************************************************************************)
\* a[i] * b[i] is NaN when either operand is a non-numeric string or
\* undefined (an index past the end of b).
TermIsNaN(a, b, i) == ~IsNumber(a[i]) \/ i > Len(b) \/ ~IsNumber(b[i])

RECURSIVE DotSum(_, _, _)
DotSum(a, b, i) ==
    IF i > Len(a) THEN 0 ELSE a[i].n * b[i].n + DotSum(a, b, i + 1)

dot(a, b) ==
    IF \E i \in 1..Len(a) : TermIsNaN(a, b, i)
    THEN [nan |-> TRUE, v |-> 0]
    ELSE [nan |-> FALSE, v |-> DotSum(a, b, 1)]

\* norm(a)^2; Math.sqrt keeps NaN and keeps 0.
normSq(a) == dot(a, a)

cosineSim(a, b) ==
    LET na == normSq(a)
        nb == normSq(b)
        denomNaN == na.nan \/ nb.nan
        denomZero == ~denomNaN /\ (na.v = 0 \/ nb.v = 0)
        d == dot(a, b)
    IN  IF denomZero THEN [nan |-> FALSE, d |-> 0, q |-> 1]
        ELSE IF denomNaN \/ d.nan THEN [nan |-> TRUE, d |-> 0, q |-> 1]
        ELSE [nan |-> FALSE, d |-> d.v, q |-> na.v * nb.v]

MinusOne == [nan |-> FALSE, d |-> -1, q |-> 1]

\* x >= 0 on scores; NaN >= 0 is false.
ScoreNonNeg(x) == ~x.nan /\ x.d >= 0

\* x < y for two scores that are not NaN: t |-> sign(t) * t^2 is increasing.
Signed(x) == IF x.d >= 0 THEN x.d * x.d ELSE -(x.d * x.d)
ScoreLess(x, y) == Signed(x) * y.q < Signed(y) * x.q

(***************************************************************************)
(* JSON.stringify / JSON.parse of an embedding (index.js 295, 356).  The    *)
(* column holds text: [json |-> v] is the text that parses to v, and        *)
(* [garbage |-> TRUE] is text JSON.parse throws on.                         *)
(***************************************************************************)
JSONstringify(v) == [json |-> v]
Garbage == [garbage |-> TRUE]
JSONparseThrows(t) == "json" \notin DOMAIN t
JSONparse(t) == t.json

(***************************************************************************)
(* The retrieval pipeline of lines 352-365: map, filter, sort, slice.       *)
(***************************************************************************)
ScoreRow(queryEmbedding, row) ==
    [row |-> row,
     score |-> IF JSONparseThrows(row.embedding_json)
               THEN MinusOne
               ELSE cosineSim(queryEmbedding, JSONparse(row.embedding_json))]

\* A variant without the .filter((x) => x.score >= 0) of line 363.
FilterNoScore(xs) == xs

RECURSIVE FilterNonNeg(_)
FilterNonNeg(xs) ==
    IF Len(xs) = 0 THEN <<>>
    ELSE IF ScoreNonNeg(Head(xs).score)
         THEN <<Head(xs)>> \o FilterNonNeg(Tail(xs))
         ELSE FilterNonNeg(Tail(xs))

\* Array.prototype.sort((a, b) => b.score - a.score): descending and
\* stable.  x goes behind every element whose score is not less than its own.
InsertDesc(sorted, x) ==
    LET keep == {k \in 1..Len(sorted) : ~ScoreLess(sorted[k].score, x.score)}
        n == Cardinality(keep)
    IN  SubSeq(sorted, 1, n) \o <<x>> \o SubSeq(sorted, n + 1, Len(sorted))

RECURSIVE SortDesc(_)
SortDesc(xs) ==
    IF Len(xs) = 0 THEN <<>>
    ELSE InsertDesc(SortDesc(SubSeq(xs, 1, Len(xs) - 1)), xs[Len(xs)])

\* Array.prototype.slice(0, k) for an integer k >= 0.
SliceTopK(xs, k) == SubSeq(xs, 1, Min(k, Len(xs)))

\* A variant without the sort and the slice.
ScoredUnsorted(queryEmbedding, rows, topK) ==
    FilterNonNeg([k \in 1..Len(rows) |-> ScoreRow(queryEmbedding, rows[k])])

Scored(queryEmbedding, rows, topK) ==
    SliceTopK(
        SortDesc(FilterNonNeg([k \in 1..Len(rows) |-> ScoreRow(queryEmbedding, rows[k])])),
        topK)

(***************************************************************************)
(* Configuration read from process.env, with the defaults of the source.    *)
(***************************************************************************)
DefaultTopK == 4
DefaultChunkMaxChars == 800
DefaultChunkOverlapChars == 120

\* Number(process.env.X ?? d) for a variable that is unset or a numeral.
EnvNumber(v, d) == IF IsAbsent(v) THEN d ELSE v.n

(***************************************************************************)
(* A request slot: the handler's position (pc) and its locals.              *)
(*   pc = "embed_fetch"  awaiting fetch(.../embeddings)       (line 220)    *)
(*   pc = "embed_body"   awaiting res.text() or res.json()    (233, 238)    *)
(*   pc = "chat_fetch"   awaiting fetch(.../chat/completions) (line 388)    *)
(*   pc = "chat_body"    awaiting upstreamRes.text() / json() (423, 432)    *)
(*   pc = "done"         the handler returned                               *)
(* embedCalls and chatCalls count the outbound calls the request issued,    *)
(* responses lists what res.json() sent, log what console.error wrote.      *)
(***************************************************************************)
NoBody == [none |-> TRUE]

IdleReq ==
    [kind |-> "none", pc |-> "idle", requestId |-> 0, body |-> NoBody,
     chunks |-> <<>>, rows |-> <<>>,
     useRag |-> FALSE, topK |-> 0, queryEmbedding |-> <<>>,
     citations |-> <<>>, ragContext |-> <<>>,
     resOk |-> FALSE, timer |-> FALSE, aborted |-> FALSE, sent |-> <<>>,
     embedCalls |-> 0, chatCalls |-> 0, responses |-> <<>>, log |-> <<>>,
     clientGone |-> FALSE]

\* A variant that makes an id for the first request only and hands the
\* one made last to every later request, as a handler would that cached
\* its requestId outside the route callback.
randomUUIDCached == IF uuids = 0 THEN uuids + 1 ELSE uuids

\* crypto.randomUUID() (252, 317): a value no earlier call returned.
randomUUID == uuids + 1

\* A variant that echoes the id handed out last, as a handler would that
\* kept requestId in a variable shared by all requests.
RespondLatestId(q, status, code) ==
    [q EXCEPT !.pc = "done",
              !.responses = Append(@, [status |-> status, code |-> code,
                                       requestId |-> uuids,
                                       message |-> "", citations |-> <<>>,
                                       chunks |-> 0])]

\* res.status(status).json({code, message, requestId}), then return.
Respond(q, status, code) ==
    [q EXCEPT !.pc = "done",
              !.responses = Append(@, [status |-> status, code |-> code,
                                       requestId |-> q.requestId,
                                       message |-> "", citations |-> <<>>,
                                       chunks |-> 0])]

Log(q, line) == [q EXCEPT !.log = Append(@, line)]

\* A variant whose catch block calls the embedding provider a second time
\* before it gives up.
CatchRetryEmbedding(q) ==
    IF q.pc \in {"embed_fetch", "embed_body"} /\ q.embedCalls <= Len(q.rows) + 1
    THEN [q EXCEPT !.pc = "embed_fetch", !.embedCalls = @ + 1]
    ELSE Respond(Log(q, "handler error"), 500, "INTERNAL_ERROR")

\* The catch blocks (303-310, 448-455).
Catch(q) == Respond(Log(q, "handler error"), 500, "INTERNAL_ERROR")

\* embedText up to its await (216-230): one outbound call.
CallEmbedText(q) ==
    [q EXCEPT !.pc = "embed_fetch", !.embedCalls = @ + 1]

SystemPrompt == [role |-> "system", content |-> "SYSTEM_PROMPT"]

ContextPrompt(ragContext) ==
    [role |-> "system", content |-> "USE_CONTEXT", context |-> ragContext]

\* A variant that adds the context instruction whenever retrieval is on.
CompletionMessagesAlways(q) ==
    <<SystemPrompt>>
    \o (IF q.useRag THEN <<ContextPrompt(q.ragContext)>> ELSE <<>>)
    \o q.body.messages.list

\* A variant that puts the context instruction behind the conversation.
CompletionMessagesContextLast(q) ==
    <<SystemPrompt>>
    \o q.body.messages.list
    \o (IF q.useRag /\ Len(q.ragContext) > 0
        THEN <<ContextPrompt(q.ragContext)>>
        ELSE <<>>)

\* The message list of lines 399-413.
CompletionMessages(q) ==
    <<SystemPrompt>>
    \o (IF q.useRag /\ Len(q.ragContext) > 0
        THEN <<ContextPrompt(q.ragContext)>>
        ELSE <<>>)
    \o q.body.messages.list

\* Lines 383-418 up to the await: arm the abort timer, issue the call.
CallCompletion(q) ==
    [q EXCEPT !.pc = "chat_fetch", !.timer = TRUE, !.chatCalls = @ + 1,
              !.sent = CompletionMessages(q)]

HasUserMessage(ms) == \E k \in 1..Len(ms) : ms[k].role = "user"

\* A variant that numbers the citations by their place in the result.
CitationsByPlace(scored) ==
    [k \in 1..Len(scored) |->
        [id |-> k, source |-> scored[k].row.source,
         chunkIndex |-> scored[k].row.chunk_index, score |-> scored[k].score]]

\* Lines 367-379.  ragContext is the list of labelled entries that join()
\* concatenates; every entry starts with "Source: ", so the joined string
\* is empty exactly when the list is.
Citations(scored) ==
    [k \in 1..Len(scored) |->
        [id |-> scored[k].row.id, source |-> scored[k].row.source,
         chunkIndex |-> scored[k].row.chunk_index, score |-> scored[k].score]]

RagContext(scored) ==
    [k \in 1..Len(scored) |->
        [source |-> scored[k].row.source, chunk_index |-> scored[k].row.chunk_index,
         content |-> scored[k].row.content]]

(***************************************************************************)
(* POST /chat (313-456).                                                    *)
(***************************************************************************)
\* A variant that retrieves unless told not to.
UseRagUnlessFalse(body) == body.use_rag # Bool(FALSE)

\* parsed.data.use_rag === true (338).
UseRag(body) == body.use_rag = Bool(TRUE)

\* A variant that issues the completion call without waiting for the
\* query embedding it has just asked for.
ChatAcceptedConcurrent(q) ==
    LET useRag == UseRag(q.body)
        topK == IF IsAbsent(q.body.top_k)
                THEN EnvNumber(env.RAG_TOP_K, DefaultTopK)
                ELSE q.body.top_k.n
        q1 == [q EXCEPT !.useRag = useRag, !.topK = topK]
    IN  IF useRag /\ HasUserMessage(q.body.messages.list)
        THEN [CallEmbedText(q1) EXCEPT !.chatCalls = @ + 1, !.timer = TRUE]
        ELSE CallCompletion(q1)

ChatAccepted(q) ==
    LET useRag == UseRag(q.body)
        topK == IF IsAbsent(q.body.top_k)
                THEN EnvNumber(env.RAG_TOP_K, DefaultTopK)
                ELSE q.body.top_k.n
        q1 == [q EXCEPT !.useRag = useRag, !.topK = topK]
    IN  IF useRag /\ HasUserMessage(q.body.messages.list)
        THEN CallEmbedText(q1)
        ELSE CallCompletion(q1)

\* A variant that has issued the completion call by the time it looks at
\* the outcome of the validation.
ChatHandlerCallsFirst(q) ==
    IF ~ChatRequestSchema(q.body)
    THEN Respond([q EXCEPT !.chatCalls = @ + 1], 400, "BAD_REQUEST")
    ELSE IF ~env.DEEPSEEK_API_KEY THEN Respond(q, 500, "MISSING_API_KEY")
    ELSE ChatAccepted(q)

ChatHandler(q) ==
    IF ~ChatRequestSchema(q.body) THEN Respond(q, 400, "BAD_REQUEST")
    ELSE IF ~env.DEEPSEEK_API_KEY THEN Respond(q, 500, "MISSING_API_KEY")
    ELSE ChatAccepted(q)

\* A handler that never returns keeps the one thread: no other callback
\* of the process runs.
EventLoopFree == \A p \in Slots : req[p].pc # "chunk_loop"

\* Requests take the slots in arrival order.
SlotFree(r) == req[r].pc = "idle" /\ \A p \in Slots : p < r => req[p].pc # "idle"

ChatReceive(r, bodies) ==
    /\ EventLoopFree
    /\ SlotFree(r)
    /\ \E body \in bodies :
         req' = [req EXCEPT ![r] =
                    ChatHandler([IdleReq EXCEPT !.kind = "chat", !.body = body,
                                                !.requestId = randomUUID])]
    /\ uuids' = uuids + 1
    /\ UNCHANGED <<env, store>>

\* A variant whose scan also sees the rows an ingest request has embedded
\* so far, as it would if each row were written when its embedding came.
ChatRetrievedSeesPending(q, queryEmbedding) ==
    LET pending == {p \in Slots : /\ req[p].kind = "ingest"
                                  /\ req[p].pc \in {"embed_fetch", "embed_body"}
                                  /\ Len(req[p].rows) > 0}
        early == IF pending = {} THEN <<>> ELSE req[CHOOSE p \in pending : TRUE].rows
        rows == store \o [k \in 1..Len(early) |->
                             [id |-> Len(store) + k, source |-> early[k].source,
                              chunk_index |-> early[k].chunk_index,
                              content |-> early[k].content,
                              embedding_json |-> early[k].embedding_json]]
        scored == Scored(queryEmbedding, rows, q.topK)
    IN  CallCompletion([q EXCEPT !.queryEmbedding = queryEmbedding,
                                 !.rows = rows,
                                 !.citations = Citations(scored),
                                 !.ragContext = RagContext(scored)])

\* The retrieval block (347-380) after embedText returned, then the
\* completion call.
ChatRetrieved(q, queryEmbedding) ==
    LET rows == store
        scored == Scored(queryEmbedding, rows, q.topK)
    IN  CallCompletion([q EXCEPT !.queryEmbedding = queryEmbedding,
                                 !.rows = rows,
                                 !.citations = Citations(scored),
                                 !.ragContext = RagContext(scored)])

(***************************************************************************)
(* POST /rag/ingest (248-311).                                              *)
(***************************************************************************)
\* db.transaction(...)(rows) (278-285, 300): every row or none; rowids
\* continue the table's AUTOINCREMENT sequence.
InsertedStore(rows) ==
    store \o [k \in 1..Len(rows) |->
                 [id |-> Len(store) + k, source |-> rows[k].source,
                  chunk_index |-> rows[k].chunk_index, content |-> rows[k].content,
                  embedding_json |-> rows[k].embedding_json]]

IngestDone(q) ==
    [q EXCEPT !.pc = "done",
              !.responses = Append(@, [status |-> 200, code |-> "OK",
                                       requestId |-> q.requestId, message |-> "",
                                       citations |-> <<>>, chunks |-> Len(q.rows)])]

IngestAccepted(q) ==
    LET chunks == chunkText(q.body.text,
                            EnvNumber(env.RAG_CHUNK_MAX_CHARS, DefaultChunkMaxChars),
                            EnvNumber(env.RAG_CHUNK_OVERLAP_CHARS, DefaultChunkOverlapChars))
        q1 == [q EXCEPT !.chunks = chunks]
    IN  IF chunkTextDiverges(q.body.text,
                             EnvNumber(env.RAG_CHUNK_MAX_CHARS, DefaultChunkMaxChars),
                             EnvNumber(env.RAG_CHUNK_OVERLAP_CHARS, DefaultChunkOverlapChars))
        THEN [q EXCEPT !.pc = "chunk_loop"]
        ELSE IF Len(chunks) > 0 THEN CallEmbedText(q1) ELSE IngestDone(q1)

IngestHandler(q) ==
    IF ~RagIngestSchema(q.body) THEN Respond(q, 400, "BAD_REQUEST")
    ELSE IF ~env.DEEPSEEK_API_KEY THEN Respond(q, 500, "MISSING_API_KEY")
    ELSE IngestAccepted(q)

IngestReceive(r, bodies) ==
    /\ EventLoopFree
    /\ SlotFree(r)
    /\ \E body \in bodies :
         req' = [req EXCEPT ![r] =
                    IngestHandler([IdleReq EXCEPT !.kind = "ingest", !.body = body,
                                                  !.requestId = randomUUID])]
    /\ uuids' = uuids + 1
    /\ UNCHANGED <<env, store>>

\* A variant that puts each new row in front of the others
\* (rows.unshift in place of rows.push).
UnshiftedRows(q, embedding) ==
    <<[source |-> q.body.source, chunk_index |-> Len(q.rows),
       content |-> q.chunks[Len(q.rows) + 1],
       embedding_json |-> JSONstringify(embedding)]>> \o q.rows

\* rows.push(...) of lines 291-297 for chunk i = rows.length.
PushedRows(q, embedding) ==
    Append(q.rows, [source |-> q.body.source, chunk_index |-> Len(q.rows),
                    content |-> q.chunks[Len(q.rows) + 1],
                    embedding_json |-> JSONstringify(embedding)])

\* The loop body after embedText returned (291-298), then the next
\* iteration's call or, after the last chunk, the insert and the response.
IngestEmbedded(q, embedding) ==
    LET rows == PushedRows(q, embedding)
        q1 == [q EXCEPT !.rows = rows]
    IN  IF Len(rows) < Len(q.chunks) THEN CallEmbedText(q1) ELSE IngestDone(q1)

\* A variant that writes each row as soon as it is embedded.
IngestStoreEager(q, embedding) ==
    InsertedStore(<<PushedRows(q, embedding)[Len(q.rows) + 1]>>)

\* The table after that run: written once, by inserted(rows) of line 300,
\* when the loop has ended.
IngestStore(q, embedding) ==
    IF Len(PushedRows(q, embedding)) < Len(q.chunks)
    THEN store
    ELSE InsertedStore(PushedRows(q, embedding))

(***************************************************************************)
(* embedText after its await (232-245), for either caller.                  *)
(***************************************************************************)
\* The fetch of line 220 resolves with a response whose status is 2xx
\* (ok) or not.
EmbedFetchResolve(r, ok) ==
    /\ EventLoopFree
    /\ req[r].pc = "embed_fetch"
    /\ req' = [req EXCEPT ![r].pc = "embed_body", ![r].resOk = ok]
    /\ UNCHANGED <<env, store, uuids>>

\* A variant whose chat handler swallows the rejection and goes on to the
\* completion call without retrieval.
EmbedFetchRejectSkipsRetrieval(r) ==
    /\ EventLoopFree
    /\ req[r].pc = "embed_fetch"
    /\ req' = [req EXCEPT ![r] = IF req[r].kind = "chat"
                                 THEN CallCompletion(req[r])
                                 ELSE Catch(req[r])]
    /\ UNCHANGED <<env, store, uuids>>

\* The fetch rejects (network failure): embedText throws into the
\* handler's catch.
EmbedFetchReject(r) ==
    /\ EventLoopFree
    /\ req[r].pc = "embed_fetch"
    /\ req' = [req EXCEPT ![r] = Catch(req[r])]
    /\ UNCHANGED <<env, store, uuids>>

\* vec = data?.data?.[0]?.embedding passes the test of line 240.
EmbeddingValid(vec) ==
    ~IsAbsent(vec) /\ Len(vec.list) # 0 /\ IsNumber(vec.list[1])

\* The body read settles.  Not ok: res.text() resolves and line 235
\* throws.  Ok: res.json() resolves with data whose embedding is `vec`.
EmbedBodyArrives(r, vec) ==
    /\ EventLoopFree
    /\ req[r].pc = "embed_body"
    /\ LET q == req[r]
       IN  /\ req' = [req EXCEPT ![r] =
                        IF ~q.resOk
                        THEN Catch(Log(q, "embedding upstream error"))
                        ELSE IF ~EmbeddingValid(vec)
                        THEN Catch(Log(q, "embedding invalid response"))
                        ELSE IF q.kind = "chat" THEN ChatRetrieved(q, vec.list)
                        ELSE IngestEmbedded(q, vec.list)]
           /\ store' = IF q.kind = "ingest" /\ q.resOk /\ EmbeddingValid(vec)
                       THEN IngestStore(q, vec.list)
                       ELSE store
    /\ UNCHANGED <<env, uuids>>

\* res.text() or res.json() rejects (the body stream breaks, or the body
\* is not JSON).
EmbedBodyFails(r) ==
    /\ EventLoopFree
    /\ req[r].pc = "embed_body"
    /\ req' = [req EXCEPT ![r] = Catch(req[r])]
    /\ UNCHANGED <<env, store, uuids>>

(***************************************************************************)
(* The completion call after its await (416-447).                           *)
(***************************************************************************)
\* The fetch resolves; finally() clears the timer.
ChatFetchResolve(r, ok) ==
    /\ EventLoopFree
    /\ req[r].pc = "chat_fetch"
    /\ req' = [req EXCEPT ![r].pc = "chat_body", ![r].resOk = ok, ![r].timer = FALSE]
    /\ UNCHANGED <<env, store, uuids>>

\* The fetch rejects on its own (network failure).
ChatFetchReject(r) ==
    /\ EventLoopFree
    /\ req[r].pc = "chat_fetch"
    /\ req' = [req EXCEPT ![r] = Catch([req[r] EXCEPT !.timer = FALSE])]
    /\ UNCHANGED <<env, store, uuids>>

\* A variant whose timer is never cleared: it fires whatever the handler
\* is doing, also after it has responded, and the catch block responds.
ChatTimeoutNeverCleared(r) ==
    /\ EventLoopFree
    /\ req[r].kind = "chat"
    /\ req[r].chatCalls >= 1
    /\ ~req[r].aborted
    /\ req' = [req EXCEPT ![r] = Catch([req[r] EXCEPT !.timer = FALSE, !.aborted = TRUE])]
    /\ UNCHANGED <<env, store, uuids>>

\* The timer of line 385 fires: controller.abort() rejects the pending
\* fetch with an AbortError, which the catch block handles.
ChatTimeout(r) ==
    /\ EventLoopFree
    /\ req[r].pc = "chat_fetch"
    /\ req[r].timer
    /\ req' = [req EXCEPT ![r] = Catch([req[r] EXCEPT !.timer = FALSE, !.aborted = TRUE])]
    /\ UNCHANGED <<env, store, uuids>>

ChatSuccess(q, message) ==
    [q EXCEPT !.pc = "done",
              !.responses = Append(@, [status |-> 200, code |-> "OK",
                                       requestId |-> q.requestId, message |-> message,
                                       citations |-> q.citations, chunks |-> 0])]

\* message = data?.choices?.[0]?.message?.content passes the test of 434.
MessageValid(content) == ~IsAbsent(content) /\ content.text # ""

\* The body read settles.  Not ok: text() resolves, 502 UPSTREAM_ERROR.
\* Ok: json() resolves with data whose first choice's content is `content`.
ChatBodyArrives(r, content) ==
    /\ EventLoopFree
    /\ req[r].pc = "chat_body"
    /\ LET q == req[r]
       IN  req' = [req EXCEPT ![r] =
                     IF ~q.resOk
                     THEN Respond(Log(q, "deepseek upstream error"), 502, "UPSTREAM_ERROR")
                     ELSE IF ~MessageValid(content)
                          THEN Respond(Log(q, "deepseek invalid response"),
                                       502, "BAD_UPSTREAM_RESPONSE")
                          ELSE ChatSuccess(q, content.text)]
    /\ UNCHANGED <<env, store, uuids>>

\* upstreamRes.text() or upstreamRes.json() rejects.
ChatBodyFails(r) ==
    /\ EventLoopFree
    /\ req[r].pc = "chat_body"
    /\ req' = [req EXCEPT ![r] = Catch(req[r])]
    /\ UNCHANGED <<env, store, uuids>>

(***************************************************************************)
(* Inputs: request bodies, provider replies, configurations and the rows    *)
(* an earlier run of the process left in the database file.                 *)
(***************************************************************************)
Msgs(l) == [list |-> l]
User(c) == [role |-> "user", content |-> c]
Assistant(c) == [role |-> "assistant", content |-> c]

ChatBody(ms, t, mt, ur, tk) ==
    [messages |-> ms, temperature |-> t, max_tokens |-> mt, use_rag |-> ur, top_k |-> tk]

MessagesValues ==
    {Absent, Msgs(<<>>), Msgs(<<User("q")>>), Msgs(<<Assistant("a")>>),
     Msgs(<<User("q"), Assistant("a")>>), Msgs(<<User("")>>),
     Msgs(<<[role |-> "system", content |-> "s"]>>)}
TemperatureValues ==
    {Absent, Str, NumHalf(-1), Num(0), NumHalf(1), Num(TemperatureMax),
     NumHalf(TemperatureMax)}
MaxTokensValues ==
    {Absent, Str, Num(0), NumHalf(1), Num(1), Num(MaxTokensMax), Num(MaxTokensMax + 1)}
UseRagValues == {Absent, Str, Bool(TRUE), Bool(FALSE)}
TopKValues ==
    {Absent, Str, Num(0), Num(1), NumHalf(1), Num(2), Num(TopKMax), Num(TopKMax + 1)}

\* Every combination of the field values above.
WideChatBodies ==
    {ChatBody(ms, t, mt, ur, tk) :
        ms \in MessagesValues, t \in TemperatureValues, mt \in MaxTokensValues,
        ur \in UseRagValues, tk \in TopKValues}

\* A few bodies: without retrieval, with retrieval (top_k 1), an empty
\* message list, and one the schema rejects.
SmallChatBodies ==
    {ChatBody(Msgs(<<User("q")>>), Absent, Absent, Absent, Absent),
     ChatBody(Msgs(<<User("q"), Assistant("a")>>), Num(1), Num(1), Bool(TRUE), Num(1)),
     ChatBody(Msgs(<<>>), Absent, Absent, Bool(TRUE), Absent),
     ChatBody(Msgs(<<User("q")>>), Num(TemperatureMax + 1), Absent, Bool(TRUE), Absent)}

\* Retrieval requests with each top_k in force.
RetrievalChatBodies ==
    {ChatBody(Msgs(<<User("q")>>), Absent, Absent, ur, tk) :
        ur \in {Absent, Bool(FALSE), Bool(TRUE)},
        tk \in {Absent, Num(1), Num(2), Num(TopKMax)}}

IngestBody(src, text) == [source |-> src, text |-> text]

IngestBodies ==
    {IngestBody("doc1", <<"a">>),
     IngestBody("doc1", <<"a", "LF", "LF", "b">>),
     IngestBody("doc1", <<"a", "b", "LF", "CR", "LF", "c", "d", "e", "f">>),
     IngestBody("doc1", <<"SP">>),
     IngestBody("doc1", <<>>),
     IngestBody("", <<"a">>)}

Vec(l) == [list |-> l]

Vectors ==
    {<<Num(1), Num(0)>>, <<Num(1), Num(1)>>, <<Num(0), Num(1)>>,
     <<Num(-1), Num(0)>>, <<Num(0), Num(0)>>}

\* What data?.data?.[0]?.embedding can be: missing, empty, led by a
\* non-number, or a vector of numbers.
EmbedReplies ==
    {Absent, Vec(<<>>), Vec(<<Str, Num(1)>>)} \cup {Vec(v) : v \in Vectors}

SmallVectors == {<<Num(1), Num(0)>>, <<Num(-1), Num(0)>>}

SmallEmbedReplies == {Absent} \cup {Vec(v) : v \in SmallVectors}

\* The same with an empty vector, a number followed by a string, and a
\* vector of another length.
WideEmbedReplies ==
    SmallEmbedReplies \cup {Vec(<<>>), Vec(<<Num(1), Str>>), Vec(<<Num(1)>>)}

SmallIngestBodies ==
    {IngestBody("doc1", <<"a", "LF", "LF", "b">>),
     IngestBody("doc1", <<"SP">>),
     IngestBody("", <<"a">>)}

\* What data?.choices?.[0]?.message?.content can be.
CompletionReplies == {Absent, [text |-> ""], [text |-> "answer"]}

Env(key, topK, maxChars, overlap) ==
    [DEEPSEEK_API_KEY |-> key, RAG_TOP_K |-> topK,
     RAG_CHUNK_MAX_CHARS |-> maxChars, RAG_CHUNK_OVERLAP_CHARS |-> overlap]

Envs ==
    {Env(TRUE, Absent, Absent, Absent),
     Env(TRUE, Num(2), Num(3), Num(1)),
     Env(FALSE, Absent, Absent, Absent)}

SmallEnvs == {Env(TRUE, Absent, Absent, Absent), Env(FALSE, Absent, Absent, Absent)}

\* Rows as an ingest of an earlier run wrote them.
StoredRow(k, v) ==
    [id |-> k, source |-> "doc0", chunk_index |-> k - 1, content |-> <<"a">>,
     embedding_json |-> JSONstringify(v)]

StoresUpTo(n, vectors) ==
    UNION {{[k \in 1..m |-> StoredRow(k, f[k])] : f \in [1..m -> vectors]} : m \in 0..n}

(***************************************************************************)
(* The client of a request (the `req` and `res` of 248 and 313).            *)
(***************************************************************************)
\* An outbound call of request r is under way: embedText's fetch or body
\* read (220-232), or the completion's (386-432).
EmbeddingInFlight(r) == req[r].pc \in {"embed_fetch", "embed_body"}
CompletionInFlight(r) == req[r].pc \in {"chat_fetch", "chat_body"}

\* The client closes its connection while the handler waits.  Neither
\* handler registers a listener on `req` or `res`, so no code of the
\* handler runs: the request goes on as before.
ClientDisconnect(r) ==
    /\ EventLoopFree
    /\ EmbeddingInFlight(r) \/ CompletionInFlight(r)
    /\ ~req[r].clientGone
    /\ req' = [req EXCEPT ![r].clientGone = TRUE]
    /\ UNCHANGED <<env, store, uuids>>

(***************************************************************************)
(* Specifications.                                                          *)
(***************************************************************************)
InitWith(envs, stores) ==
    /\ env \in envs
    /\ store \in stores
    /\ uuids = 0
    /\ req = [r \in Slots |-> IdleReq]

NextWith(slots, chatBodies, ingestBodies, embedReplies) ==
    \E r \in slots :
        \/ ChatReceive(r, chatBodies)
        \/ IngestReceive(r, ingestBodies)
        \/ \E ok \in BOOLEAN : EmbedFetchResolve(r, ok)
        \/ EmbedFetchReject(r)
        \/ \E vec \in embedReplies : EmbedBodyArrives(r, vec)
        \/ EmbedBodyFails(r)
        \/ \E ok \in BOOLEAN : ChatFetchResolve(r, ok)
        \/ ChatFetchReject(r)
        \/ ChatTimeout(r)
        \/ \E content \in CompletionReplies : ChatBodyArrives(r, content)
        \/ ChatBodyFails(r)

\* Concurrent requests over a few inputs.
Init == InitWith(SmallEnvs, {<<>>})
Next == NextWith(Slots, SmallChatBodies, SmallIngestBodies, SmallEmbedReplies)
Spec == Init /\ [][Next]_vars

\* One request whose client may close the connection.
InitClient == InitWith(Envs, {<<>>})
NextClient ==
    \/ NextWith({1}, SmallChatBodies, IngestBodies, SmallEmbedReplies)
    \/ ClientDisconnect(1)
SpecClient == InitClient /\ [][NextClient]_vars

\* One request over every combination of the chat body's fields.
InitValidate == InitWith(Envs, {<<>>})
NextValidate == NextWith({1}, WideChatBodies, IngestBodies, WideEmbedReplies)
SpecValidate == InitValidate /\ [][NextValidate]_vars

\* One request over every store of up to MaxScanRows rows.
InitRetrieve == InitWith(Envs, StoresUpTo(MaxScanRows, Vectors))
NextRetrieve == NextWith({1}, RetrievalChatBodies, IngestBodies, EmbedReplies)
SpecRetrieve == InitRetrieve /\ [][NextRetrieve]_vars

\* One request over every table of up to MaxScanRows rows whose
\* embedding_json is a vector along, against or across the query, the
\* zero vector, a vector of another length, or text that is not JSON.
ScanColumns ==
    {JSONstringify(v) : v \in {<<Num(1), Num(0)>>, <<Num(-1), Num(0)>>,
                               <<Num(0), Num(0)>>, <<Num(1)>>}}
    \cup {Garbage}

ScanStores(n) ==
    UNION {{[k \in 1..m |-> [StoredRow(k, <<>>) EXCEPT !.embedding_json = f[k]]] :
               f \in [1..m -> ScanColumns]} : m \in 0..n}

ScanChatBodies ==
    {ChatBody(Msgs(<<User("q")>>), Absent, Absent, ur, tk) :
        ur \in {Absent, Bool(TRUE)}, tk \in {Absent, Num(1), Num(2)}}
    \cup {ChatBody(Msgs(<<User("q"), Assistant("a"), User("p")>>),
                   Absent, Absent, Bool(TRUE), Num(2))}

InitScan == InitWith(SmallEnvs, ScanStores(MaxScanRows))
NextScan == NextWith({1}, ScanChatBodies, SmallIngestBodies, SmallEmbedReplies)
SpecScan == InitScan /\ [][NextScan]_vars

\* The chunker over every text of up to MaxTextLen characters of two
\* letters and the line feed, a few longer texts of one and of two
\* paragraphs, a few texts with the other whitespace, and
\* the default configuration and every pair of RAG_CHUNK_MAX_CHARS in
\* 1..MaxChunkChars and RAG_CHUNK_OVERLAP_CHARS in 0..MaxChunkChars;
\* process.env is not validated, so the overlap may reach or pass the
\* maximum.
MaxTextLen == 5
MaxChunkChars == 3

ChunkTexts ==
    UNION {[1..n -> {"a", "b", "LF"}] : n \in 0..MaxTextLen}
    \cup {<<"SP">>, <<"CR", "LF">>, <<"SP", "a", "SP">>, <<"a", "CR", "LF", "b">>,
          <<"a", "CR", "LF", "CR", "LF", "b">>, <<"a", "CR", "b">>,
          <<"a", "b", "a", "b", "a", "b">>, <<"b", "LF", "LF", "a", "b", "b">>,
          <<"a", "b", "LF", "LF", "b", "a", "b", "a">>}

ChunkIngestBodies == {IngestBody("doc1", text) : text \in ChunkTexts}

ChunkEnvs ==
    {Env(TRUE, Absent, Absent, Absent)}
    \cup {Env(TRUE, Absent, Num(maxChars), Num(overlap)) :
             maxChars \in 1..MaxChunkChars, overlap \in 0..MaxChunkChars}

ChunkEmbedReplies == {Absent, Vec(<<Num(1), Num(0)>>)}

InitChunk == InitWith(ChunkEnvs, {<<>>})
NextChunk == NextWith({1}, SmallChatBodies, ChunkIngestBodies, ChunkEmbedReplies)
SpecChunk == InitChunk /\ [][NextChunk]_vars

(***************************************************************************)
(* Vocabulary of the properties.                                            *)
(***************************************************************************)
Finished(r) == req[r].pc = "done"
Resp(r) == req[r].responses[1]
Logged(r, line) == \E k \in 1..Len(req[r].log) : req[r].log[k] = line

\* The failure kinds of the error taxonomy, by the wire code that stands
\* for each; three kinds have no wire code.
Kind(code) ==
    CASE code = "OK" -> "Success"
      [] code = "BAD_REQUEST" -> "BadRequest"
      [] code = "MISSING_API_KEY" -> "MissingConfiguration"
      [] code = "UPSTREAM_ERROR" -> "UpstreamError"
      [] code = "BAD_UPSTREAM_RESPONSE" -> "UpstreamResponseInvalid"
      [] code = "INTERNAL_ERROR" -> "InternalError"
      [] code = "UPSTREAM_TIMEOUT" -> "UpstreamTimeout"
      [] code = "EMBEDDING_UPSTREAM_ERROR" -> "EmbeddingUpstreamError"
      [] code = "EMBEDDING_RESPONSE_INVALID" -> "EmbeddingResponseInvalid"
      [] OTHER -> "Unknown"

IngestSucceeded(r) ==
    req[r].kind = "ingest" /\ Finished(r) /\ Resp(r).status = 200

\* An ingest call that ended in a failure of one of its embedding calls.
IngestFailedEmbedding(r) ==
    req[r].kind = "ingest" /\ Finished(r) /\ Resp(r).status # 200
    /\ Len(req[r].chunks) >= 1 /\ req[r].embedCalls >= 1

RECURSIVE RowsPersisted(_)
RowsPersisted(S) ==
    IF S = {} THEN 0
    ELSE LET r == CHOOSE x \in S : TRUE
         IN  (IF IngestSucceeded(r) THEN Len(req[r].chunks) ELSE 0)
             + RowsPersisted(S \ {r})

SameRow(stored, row) ==
    /\ stored.source = row.source
    /\ stored.chunk_index = row.chunk_index
    /\ stored.content = row.content
    /\ stored.embedding_json = row.embedding_json

(***************************************************************************)
(* C1.  Ingest is atomic.  The table starts empty here, so it must hold     *)
(* exactly the rows of the ingest calls that succeeded: as many rows as     *)
(* those calls had chunks, each of them a row of such a call.  An ingest    *)
(* call one of whose embedding calls failed, at any chunk and after any     *)
(* number of embedded chunks, has therefore left no row behind.             *)
(***************************************************************************)
C1_IngestAtomic ==
    /\ Len(store) = RowsPersisted(Slots)
    /\ \A k \in 1..Len(store) :
         \E r \in Slots :
            /\ IngestSucceeded(r)
            /\ \E j \in 1..Len(req[r].rows) : SameRow(store[k], req[r].rows[j])

\* An ingest call failed on its second chunk, the first one embedded.
C1_Witness ==
    \E r \in Slots :
        /\ IngestFailedEmbedding(r)
        /\ Len(req[r].rows) >= 1
        /\ Len(req[r].rows) < Len(req[r].chunks)

(***************************************************************************)
(* C2.  A chat request whose completion call was aborted by the timeout     *)
(* ends in the failure kind UpstreamTimeout, with exactly one response.     *)
(***************************************************************************)
C2_TimeoutIsUpstreamTimeout ==
    \A r \in Slots :
        req[r].aborted =>
            /\ Finished(r)
            /\ Len(req[r].responses) = 1
            /\ Kind(Resp(r).code) = "UpstreamTimeout"

(***************************************************************************)
(* C3.  A chat request with an empty message list (the process having its   *)
(* API key) is rejected with BadRequest and issues no outbound call.        *)
(***************************************************************************)
C3_EmptyMessagesRejected ==
    \A r \in Slots :
        (/\ req[r].kind = "chat"
         /\ env.DEEPSEEK_API_KEY
         /\ req[r].body.messages = Msgs(<<>>))
        => /\ Finished(r)
           /\ Kind(Resp(r).code) = "BadRequest"
           /\ req[r].embedCalls = 0
           /\ req[r].chatCalls = 0

(***************************************************************************)
(* C4.  A chat request is rejected with BadRequest whenever a numeric       *)
(* field it supplies is out of bounds (temperature outside [0, 2],          *)
(* max_tokens not an integer in 1..8192, top_k not an integer in 1..10);    *)
(* a request whose supplied numeric fields are all within bounds, and       *)
(* whose other fields are well-formed, is not rejected.                     *)
(***************************************************************************)
TemperatureInBounds(v) ==
    IsNumber(v) /\ (v.n \in 0..1 \/ (v.n = 2 /\ ~v.frac))
MaxTokensInBounds(v) == IsNumber(v) /\ ~v.frac /\ v.n \in 1..8192
TopKInBounds(v) == IsNumber(v) /\ ~v.frac /\ v.n \in 1..10
Supplied(v) == ~IsAbsent(v)

NumericOutOfBounds(body) ==
    \/ Supplied(body.temperature) /\ ~TemperatureInBounds(body.temperature)
    \/ Supplied(body.max_tokens) /\ ~MaxTokensInBounds(body.max_tokens)
    \/ Supplied(body.top_k) /\ ~TopKInBounds(body.top_k)

C4_NumericBounds ==
    \A r \in Slots :
        req[r].kind = "chat" =>
            /\ NumericOutOfBounds(req[r].body)
               => Finished(r) /\ Kind(Resp(r).code) = "BadRequest"
            /\ (/\ ~NumericOutOfBounds(req[r].body)
                /\ MessagesOk(req[r].body.messages)
                /\ UseRagOk(req[r].body.use_rag)
                /\ Finished(r))
               => Kind(Resp(r).code) # "BadRequest"

\* Rejected for top_k = 11 alone, every other field being in order.
C4_Witness ==
    \E r \in Slots :
        /\ req[r].kind = "chat" /\ Finished(r)
        /\ Resp(r).code = "BAD_REQUEST"
        /\ req[r].body.top_k = Num(11)
        /\ req[r].body.temperature = Num(2)
        /\ req[r].body.max_tokens = Num(8192)
        /\ MessagesOk(req[r].body.messages)
        /\ UseRagOk(req[r].body.use_rag)

(***************************************************************************)
(* C5.  A request that met a non-success status from the embedding          *)
(* provider answers with the kind EmbeddingUpstreamError, one that met a    *)
(* malformed success body with EmbeddingResponseInvalid, and both carry     *)
(* the request's correlation id (request r is the r-th to arrive and has    *)
(* the r-th id).                                                            *)
(***************************************************************************)
C5_EmbeddingFailureKinds ==
    \A r \in Slots :
        Finished(r) =>
            /\ Logged(r, "embedding upstream error")
               => Kind(Resp(r).code) = "EmbeddingUpstreamError" /\ Resp(r).requestId = r
            /\ Logged(r, "embedding invalid response")
               => Kind(Resp(r).code) = "EmbeddingResponseInvalid" /\ Resp(r).requestId = r

(***************************************************************************)
(* C6.  A chat request whose completion call was answered with a            *)
(* non-success status, the error body delivered, ends in UpstreamError      *)
(* (502), and its one response carries the id generated when the request    *)
(* arrived: request r is the r-th to arrive and has the r-th id.            *)
(***************************************************************************)
CompletionAnsweredNotOk(r) ==
    /\ req[r].kind = "chat" /\ Finished(r)
    /\ req[r].chatCalls = 1 /\ ~req[r].resOk
    /\ Logged(r, "deepseek upstream error")

C6_UpstreamErrorKeepsId ==
    \A r \in Slots :
        CompletionAnsweredNotOk(r) =>
            /\ Len(req[r].responses) = 1
            /\ Kind(Resp(r).code) = "UpstreamError"
            /\ Resp(r).status = 502
            /\ Resp(r).requestId = r

\* The first request ends in UpstreamError after the second one arrived.
C6_Witness ==
    /\ CompletionAnsweredNotOk(1)
    /\ uuids = 2

(***************************************************************************)
(* C7.  A chat request whose use_rag is false or absent issues no           *)
(* embedding call, and its citations are empty when it succeeds.            *)
(***************************************************************************)
RetrievalOff(r) ==
    req[r].kind = "chat" /\ req[r].body.use_rag \in {Absent, Bool(FALSE)}

C7_NoRetrievalNoEmbedding ==
    \A r \in Slots :
        RetrievalOff(r) =>
            /\ req[r].embedCalls = 0
            /\ (Finished(r) /\ Resp(r).status = 200) => Resp(r).citations = <<>>

\* Such a request succeeded over a table that holds rows.
C7_Witness ==
    \E r \in Slots :
        /\ RetrievalOff(r) /\ Finished(r) /\ Resp(r).status = 200
        /\ IsAbsent(req[r].body.use_rag)
        /\ Len(store) > 0

(***************************************************************************)
(* C8.  A chat request with use_rag true for which no stored chunk          *)
(* qualifies (none has a similarity >= 0 to the query, or the table is      *)
(* empty) sends the completion provider no retrieval-context instruction    *)
(* and, when it succeeds, returns no citations.                             *)
(***************************************************************************)
Qualifies(queryEmbedding, row) ==
    /\ ~JSONparseThrows(row.embedding_json)
    /\ ScoreNonNeg(cosineSim(queryEmbedding, JSONparse(row.embedding_json)))

\* The completion call of request r was issued after a retrieval that
\* found nothing.  With one request at a time the table is the one scanned.
RetrievedNothing(r) ==
    /\ req[r].kind = "chat" /\ req[r].body.use_rag = Bool(TRUE)
    /\ req[r].chatCalls = 1
    /\ \A k \in 1..Len(store) : ~Qualifies(req[r].queryEmbedding, store[k])

HasContextInstruction(msgs) ==
    \E k \in 1..Len(msgs) : msgs[k].role = "system" /\ msgs[k].content = "USE_CONTEXT"

C8_NoContextWhenNothingRetrieved ==
    \A r \in Slots :
        RetrievedNothing(r) =>
            /\ ~HasContextInstruction(req[r].sent)
            /\ (Finished(r) /\ Resp(r).status = 200) => Resp(r).citations = <<>>

\* Succeeded over a table whose rows all have negative similarity.
C8_Witness ==
    \E r \in Slots :
        /\ RetrievedNothing(r) /\ Finished(r) /\ Resp(r).status = 200
        /\ req[r].embedCalls = 1
        /\ Len(store) >= 2

(***************************************************************************)
(* C9.  A request that fails local validation issues no call to either      *)
(* provider and leaves the table as it was (empty here, with one request    *)
(* at a time).                                                              *)
(***************************************************************************)
FailsValidation(r) ==
    \/ req[r].kind = "chat" /\ ~ChatRequestSchema(req[r].body)
    \/ req[r].kind = "ingest" /\ ~RagIngestSchema(req[r].body)

C9_ValidationFailsFast ==
    \A r \in Slots :
        FailsValidation(r) =>
            /\ Finished(r)
            /\ Resp(r).code = "BAD_REQUEST"
            /\ req[r].embedCalls = 0
            /\ req[r].chatCalls = 0
            /\ store = <<>>

\* A chat request with retrieval on and a bad temperature was turned away.
C9_Witness ==
    \E r \in Slots :
        /\ req[r].kind = "chat" /\ FailsValidation(r) /\ Finished(r)
        /\ req[r].body.use_rag = Bool(TRUE)
        /\ req[r].body.messages = Msgs(<<User("q")>>)
        /\ env.DEEPSEEK_API_KEY

(***************************************************************************)
(* C10.  The retrieval step returns at most k results, k the request's      *)
(* top_k or else the configured default, with scores in non-increasing      *)
(* order.                                                                   *)
(***************************************************************************)
EffectiveK(r) ==
    IF Supplied(req[r].body.top_k) THEN req[r].body.top_k.n
    ELSE IF Supplied(env.RAG_TOP_K) THEN env.RAG_TOP_K.n
    ELSE 4

C10_TopKSorted ==
    \A r \in Slots :
        (req[r].kind = "chat" /\ ChatRequestSchema(req[r].body)) =>
            LET c == req[r].citations
            IN  /\ Len(c) <= EffectiveK(r)
                /\ \A k \in 1..(Len(c) - 1) : ~ScoreLess(c[k].score, c[k + 1].score)

\* Two of three rows returned, the later row first and with the higher score.
C10_Witness ==
    \E r \in Slots :
        /\ req[r].kind = "chat"
        /\ Len(store) = 3
        /\ EffectiveK(r) = 2
        /\ Len(req[r].citations) = 2
        /\ req[r].citations[1].id > req[r].citations[2].id
        /\ ScoreLess(req[r].citations[2].score, req[r].citations[1].score)

\* C11: no outbound call is made twice.  A chat request makes at most one
\* embedding call and at most one completion call, whatever their outcome;
\* an ingest request makes at most one embedding call per chunk: one for
\* each chunk already embedded and at most one more for the next chunk,
\* never more calls than chunks, and no completion call.
C11_NoRetries ==
    \A r \in Slots :
        /\ req[r].kind = "chat" =>
               req[r].embedCalls <= 1 /\ req[r].chatCalls <= 1
        /\ req[r].kind = "ingest" =>
               /\ req[r].embedCalls <= Len(req[r].chunks)
               /\ req[r].embedCalls <= Len(req[r].rows) + 1
               /\ req[r].chatCalls = 0

\* A chat request that failed after both of its calls, next to an ingest
\* request that failed on its second chunk.
C11_Witness ==
    \E r, p \in Slots :
        /\ req[r].kind = "chat" /\ Finished(r) /\ Resp(r).status # 200
        /\ req[r].embedCalls = 1 /\ req[r].chatCalls = 1
        /\ req[p].kind = "ingest" /\ Finished(p) /\ Resp(p).status = 500
        /\ Len(req[p].rows) = 1 /\ req[p].embedCalls = 2

\* C12: every response, on the success path and on every failure path of
\* both endpoints, carries the correlation id made when its request
\* arrived; a request keeps the id it was given for as long as it is
\* handled, answers exactly once with it, and no two requests have the
\* same id.
C12_CorrelationId ==
    \A r \in Slots :
        /\ req[r].kind # "none" =>
               /\ req[r].requestId = r
               /\ \A p \in Slots \ {r} :
                      req[p].kind # "none" => req[p].requestId # req[r].requestId
        /\ Finished(r) =>
               /\ Len(req[r].responses) = 1
               /\ Resp(r).requestId = req[r].requestId

\* Two requests have answered, one with success and one with a failure.
C12_Witness ==
    \E r, p \in Slots :
        /\ Finished(r) /\ Resp(r).status = 200
        /\ Finished(p) /\ Resp(p).status # 200
        /\ Resp(r).requestId # Resp(p).requestId

\* C13: chunkText ends on every text under every configuration; a
\* configuration whose maximum chunk length does not exceed the overlap
\* never sends the handler into a loop without end.
C13_ChunkTerminates == \A r \in Slots : req[r].pc # "chunk_loop"

(***************************************************************************)
(* Vocabulary of the chunker's properties.                                  *)
(***************************************************************************)
\* Request r is an ingest whose text chunkText has turned into chunks.
Chunked(r) ==
    /\ req[r].kind = "ingest"
    /\ RagIngestSchema(req[r].body)
    /\ env.DEEPSEEK_API_KEY
    /\ req[r].pc \notin {"idle", "chunk_loop"}

ConfiguredMax == EnvNumber(env.RAG_CHUNK_MAX_CHARS, DefaultChunkMaxChars)
ConfiguredOverlap == EnvNumber(env.RAG_CHUNK_OVERLAP_CHARS, DefaultChunkOverlapChars)
ValidConfiguration == ConfiguredMax > ConfiguredOverlap /\ ConfiguredOverlap >= 0

HasParagraphBreak(s) ==
    \E i \in 1..(Len(s) - 1) : s[i] = "LF" /\ s[i + 1] = "LF"

\* C14 as first stated: every non-empty text shorter than the maximum chunk
\* length becomes exactly one chunk, the trimmed text.
C14_ShortTextOneChunk ==
    \A r \in Slots :
        Chunked(r) /\ Len(req[r].body.text) >= 1
                   /\ Len(req[r].body.text) < ConfiguredMax
            => req[r].chunks = <<Trim(req[r].body.text)>>

\* C14: every text shorter than the maximum chunk length that is not only
\* white space and has no blank-line paragraph break becomes exactly one
\* chunk: the text with CR LF turned into LF, trimmed.
C14_SingleParagraphOneChunk ==
    \A r \in Slots :
        Chunked(r) /\ Len(req[r].body.text) < ConfiguredMax
                   /\ Trim(ReplaceCRLF(req[r].body.text)) # <<>>
                   /\ ~HasParagraphBreak(ReplaceCRLF(req[r].body.text))
            => req[r].chunks = <<Trim(ReplaceCRLF(req[r].body.text))>>

\* A short text with a CR LF line break inside and one with white space
\* around it have each become one chunk.
C14_Witness ==
    \E r \in Slots :
        /\ Chunked(r)
        /\ Len(req[r].body.text) < ConfiguredMax
        /\ req[r].body.text \in {<<"a", "CR", "LF", "b">>, <<"SP", "a", "SP">>}
        /\ Len(req[r].chunks) = 1

\* C15: under a valid configuration (maximum > overlap >= 0) every chunk
\* of every text is non-empty and no longer than the maximum chunk length.
C15_ChunksBounded ==
    \A r \in Slots :
        Chunked(r) /\ ValidConfiguration
            => \A k \in 1..Len(req[r].chunks) :
                   /\ Len(req[r].chunks[k]) >= 1
                   /\ Len(req[r].chunks[k]) <= ConfiguredMax

\* One paragraph longer than the maximum has been cut into three or more
\* windows that overlap, the last of them shorter than the maximum.
C15_Witness ==
    \E r \in Slots :
        /\ Chunked(r) /\ ValidConfiguration /\ ConfiguredOverlap >= 1
        /\ ~HasParagraphBreak(req[r].body.text)
        /\ Len(req[r].body.text) > ConfiguredMax
        /\ Len(req[r].chunks) >= 3
        /\ Len(req[r].chunks[Len(req[r].chunks)]) < ConfiguredMax

\* The last n characters of a are the first n characters of b.
Overlaps(a, b, n) ==
    /\ Len(a) >= n /\ Len(b) >= n
    /\ SubSeq(a, Len(a) - n + 1, Len(a)) = SubSeq(b, 1, n)

\* C16 as first stated: when the text is longer than the maximum chunk
\* length, every two consecutive chunks, except possibly the last two,
\* overlap by the configured number of characters.
C16_ConsecutiveOverlap ==
    \A r \in Slots :
        Chunked(r) /\ ValidConfiguration /\ Len(req[r].body.text) > ConfiguredMax
            => \A k \in 1..(Len(req[r].chunks) - 2) :
                   Overlaps(req[r].chunks[k], req[r].chunks[k + 1], ConfiguredOverlap)

\* The paragraphs of request r's text and the chunks cut from one of them.
Paragraphs(r) == Parts(req[r].body.text)
ParagraphChunks(r, k) == chunkText(Paragraphs(r)[k], ConfiguredMax, ConfiguredOverlap)

RECURSIVE Flatten(_)
Flatten(ss) == IF Len(ss) = 0 THEN <<>> ELSE Head(ss) \o Flatten(Tail(ss))

\* C16: under a valid configuration the chunks of a text are the chunks of
\* its paragraphs, in order, and within one paragraph every two
\* consecutive chunks, except possibly that paragraph's last two, overlap
\* by the configured number of characters.
C16_OverlapWithinParagraph ==
    \A r \in Slots :
        Chunked(r) /\ ValidConfiguration
            => LET cut == [k \in 1..Len(Paragraphs(r)) |-> ParagraphChunks(r, k)]
               IN  /\ req[r].chunks = Flatten(cut)
                   /\ \A k \in 1..Len(cut) :
                          \A j \in 1..(Len(cut[k]) - 2) :
                              Overlaps(cut[k][j], cut[k][j + 1], ConfiguredOverlap)

\* A paragraph of both letters has been cut into three or more windows
\* that overlap by at least one character.
C16_Witness ==
    \E r \in Slots :
        /\ Chunked(r) /\ ValidConfiguration /\ ConfiguredOverlap >= 1
        /\ \E k \in 1..Len(Paragraphs(r)) :
               /\ Len(ParagraphChunks(r, k)) >= 3
               /\ ParagraphChunks(r, k)[1] # ParagraphChunks(r, k)[2]
               /\ \E i \in 1..(Len(Paragraphs(r)[k]) - 1) :
                      Paragraphs(r)[k][i] # Paragraphs(r)[k][i + 1]

\* C17: the embedding call carries a timeout: whenever a chat or ingest
\* request waits on an embedding call, a timer that will abort the call is
\* pending, so the request ends even if the provider never answers.
C17_EmbeddingCallBounded ==
    \A r \in Slots : EmbeddingInFlight(r) => req[r].timer

\* C18: the completion call is bounded by its timeout for its whole
\* duration: from the moment the call is issued until its body has been
\* read, the timer that will abort it is pending.
C18_CompletionCallBounded ==
    \A r \in Slots : CompletionInFlight(r) => req[r].timer

\* C19: once the client of a request has closed its connection, no
\* outbound call of that request stays in flight without having been
\* aborted.
C19_DisconnectAborts ==
    \A r \in Slots :
        req[r].clientGone /\ (EmbeddingInFlight(r) \/ CompletionInFlight(r))
            => req[r].aborted

\* Request r is an accepted chat request that retrieves: use_rag is true
\* and the conversation has a user message to embed.
Retrieves(r) ==
    /\ req[r].kind = "chat"
    /\ ChatRequestSchema(req[r].body)
    /\ env.DEEPSEEK_API_KEY
    /\ req[r].body.use_rag = Bool(TRUE)
    /\ HasUserMessage(req[r].body.messages.list)

\* C20: within one chat request with retrieval the completion call is
\* issued only after the query embedding has returned and the stored rows
\* have been scanned and scored: while the embedding call is in flight no
\* completion call has been made, and once one has been made the single
\* embedding call has returned its vector and the citations are those of
\* the finished scan.
C20_CompletionAfterRetrieval ==
    \A r \in Slots :
        Retrieves(r) =>
            /\ EmbeddingInFlight(r) => req[r].chatCalls = 0 /\ ~req[r].timer
            /\ CompletionInFlight(r) => ~EmbeddingInFlight(r)
            /\ req[r].chatCalls > 0 =>
                   /\ req[r].embedCalls = 1
                   /\ req[r].queryEmbedding # <<>>
                   /\ req[r].citations =
                          Citations(Scored(req[r].queryEmbedding, store, req[r].topK))

\* A retrieving chat request has been answered with two or more citations
\* after one embedding call and one completion call.
C20_Witness ==
    \E r \in Slots :
        /\ Retrieves(r) /\ Finished(r) /\ Resp(r).status = 200
        /\ req[r].embedCalls = 1 /\ req[r].chatCalls = 1
        /\ Len(req[r].citations) >= 2

\* What request r's handler holds for chunk i once the call for it returned.
RowOfChunk(r, i) == req[r].rows[i]

IngestRowsInOrder(r) ==
    \A i \in 1..Len(req[r].rows) :
        /\ RowOfChunk(r, i).source = req[r].body.source
        /\ RowOfChunk(r, i).chunk_index = i - 1
        /\ RowOfChunk(r, i).content = req[r].chunks[i]

IngestSequential(r) ==
    /\ Len(req[r].rows) <= Len(req[r].chunks)
    /\ EmbeddingInFlight(r) =>
           /\ req[r].embedCalls = Len(req[r].rows) + 1
           /\ Len(req[r].rows) < Len(req[r].chunks)
    /\ ~EmbeddingInFlight(r) => req[r].embedCalls \in {Len(req[r].rows), Len(req[r].rows) + 1}
    /\ IngestRowsInOrder(r)

\* The table holds the n rows of a finished ingest of n chunks, and the
\* response reports n.
IngestInsertedAll(r) ==
    /\ Finished(r) /\ Resp(r).status = 200
    /\ Len(req[r].rows) = Len(req[r].chunks)
    /\ req[r].embedCalls = Len(req[r].chunks)
    /\ Resp(r).chunks = Len(req[r].chunks)
    /\ Len(store) = Len(req[r].rows)
    /\ \A i \in 1..Len(store) :
           /\ store[i].source = RowOfChunk(r, i).source
           /\ store[i].chunk_index = i - 1
           /\ store[i].content = req[r].chunks[i]
           /\ store[i].embedding_json = RowOfChunk(r, i).embedding_json

\* One step of an ingest request either leaves its rows alone or adds
\* the row of the call that has just returned behind the others.
IngestRowsGrowByOne(r) ==
    \/ req'[r].rows = req[r].rows
    \/ /\ req[r].pc = "embed_body"
       /\ Len(req'[r].rows) = Len(req[r].rows) + 1
       /\ SubSeq(req'[r].rows, 1, Len(req[r].rows)) = req[r].rows

\* C21: within one ingest request the embedding calls are made one at a
\* time in chunker order (the call for chunk i+1 only after the call for
\* chunk i returned), each returned embedding is kept with its chunk's
\* content and index i-1, the table is written only after all n calls
\* succeeded, with the n rows in that order, and the response counts n.
C21_IngestSequentialOrdered ==
    /\ [](\A r \in Slots :
             req[r].kind = "ingest" =>
                 /\ IngestSequential(r)
                 /\ store # <<>> => IngestInsertedAll(r)
                 /\ Finished(r) /\ Resp(r).status = 200 => IngestInsertedAll(r))
    /\ [][\A r \in Slots : req[r].kind = "ingest" => IngestRowsGrowByOne(r)]_vars

\* An ingest of three chunks has stored its three rows, whose embeddings
\* are not all the same.
C21_Witness ==
    \E r \in Slots :
        /\ req[r].kind = "ingest" /\ Finished(r) /\ Resp(r).status = 200
        /\ Len(req[r].chunks) = 3 /\ Len(store) = 3
        /\ store[1].embedding_json # store[2].embedding_json

AllNumbers(v) == \A i \in 1..Len(v) : IsNumber(v[i])

\* C22: a vector with a non-numeric element at any position is never
\* returned by embedText to its caller and never stored: every query
\* embedding a chat request holds, every row an ingest request has
\* collected and every row of the table has numbers at all positions.
C22_MalformedVectorRejected ==
    /\ \A r \in Slots :
           /\ AllNumbers(req[r].queryEmbedding)
           /\ \A i \in 1..Len(req[r].rows) :
                  AllNumbers(JSONparse(req[r].rows[i].embedding_json))
    /\ \A k \in 1..Len(store) : AllNumbers(JSONparse(store[k].embedding_json))

\* C23: in every state of the table all stored embeddings have the same
\* length; an ingest whose embeddings have another length than the rows
\* already stored, or than each other, adds nothing to them.
C23_EmbeddingLengthConstant ==
    \A k, j \in 1..Len(store) :
        Len(JSONparse(store[k].embedding_json)) = Len(JSONparse(store[j].embedding_json))

\* The query embedding call of retrieving chat request r has ended without
\* a vector: the fetch rejected, the status was not 2xx, the body could not
\* be read or the vector failed the test of embedText.
QueryEmbeddingFailed(r) ==
    /\ Retrieves(r)
    /\ req[r].embedCalls >= 1
    /\ ~EmbeddingInFlight(r)
    /\ req[r].queryEmbedding = <<>>

\* C24: when the query embedding call of a chat request with retrieval
\* fails, the request ends in a failure response and no completion call
\* is made for it.
C24_EmbeddingFailureFailsChat ==
    \A r \in Slots :
        QueryEmbeddingFailed(r) =>
            /\ Finished(r) /\ Resp(r).status # 200
            /\ req[r].chatCalls = 0 /\ req[r].sent = <<>>
            /\ ~CompletionInFlight(r)

\* A retrieving chat request has failed at the embedding call on an
\* invalid vector.
C24_Witness ==
    \E r \in Slots :
        /\ QueryEmbeddingFailed(r) /\ Logged(r, "embedding invalid response")
        /\ Finished(r) /\ Resp(r).status = 500

\* The similarity of a stored row to the query, for a row whose column
\* parses: negative, or exactly zero.
SimilarityNegative(queryEmbedding, row) ==
    /\ ~JSONparseThrows(row.embedding_json)
    /\ ~cosineSim(queryEmbedding, JSONparse(row.embedding_json)).nan
    /\ cosineSim(queryEmbedding, JSONparse(row.embedding_json)).d < 0

SimilarityZero(queryEmbedding, row) ==
    /\ ~JSONparseThrows(row.embedding_json)
    /\ ~cosineSim(queryEmbedding, JSONparse(row.embedding_json)).nan
    /\ cosineSim(queryEmbedding, JSONparse(row.embedding_json)).d = 0

\* Request r has scanned the table (with one request at a time, the table
\* as it still is) and issued its completion call.
Scanned(r) == Retrieves(r) /\ req[r].chatCalls >= 1

Cited(r, k) == \E i \in 1..Len(req[r].citations) : req[r].citations[i].id = store[k].id

InContext(r, k) ==
    \E i \in 1..Len(req[r].ragContext) :
        /\ req[r].ragContext[i].source = store[k].source
        /\ req[r].ragContext[i].chunk_index = store[k].chunk_index

\* C25: no stored chunk whose similarity to the query is negative, and no
\* row whose embedding is not parsable, is among the citations or in the
\* retrieval context, however few other chunks there are; a chunk whose
\* similarity is exactly 0 is a candidate like any other, so it is cited
\* whenever no more than k chunks qualify.
C25_NegativeExcludedZeroKept ==
    \A r \in Slots :
        Scanned(r) =>
            LET q == req[r].queryEmbedding
                good == {k \in 1..Len(store) : Qualifies(q, store[k])}
            IN  /\ \A k \in 1..Len(store) :
                       (SimilarityNegative(q, store[k])
                            \/ JSONparseThrows(store[k].embedding_json))
                           => ~Cited(r, k) /\ ~InContext(r, k)
                /\ \A k \in 1..Len(store) :
                       (SimilarityZero(q, store[k]) /\ Cardinality(good) <= EffectiveK(r))
                           => Cited(r, k) /\ InContext(r, k)
                /\ Len(req[r].citations) = Min(EffectiveK(r), Cardinality(good))
                /\ (Finished(r) /\ Resp(r).status = 200)
                       => Resp(r).citations = req[r].citations

\* Over a table of a negative row, a zero row and an unparsable row, with
\* k = 2, the answer cites the zero row alone.
C25_Witness ==
    \E r \in Slots :
        /\ Scanned(r) /\ Finished(r) /\ Resp(r).status = 200
        /\ EffectiveK(r) = 2
        /\ Len(store) = 3
        /\ \E k \in 1..3 : SimilarityNegative(req[r].queryEmbedding, store[k])
        /\ \E k \in 1..3 : JSONparseThrows(store[k].embedding_json)
        /\ \E k \in 1..3 : SimilarityZero(req[r].queryEmbedding, store[k]) /\ Cited(r, k)
        /\ Len(Resp(r).citations) = 1

\* The table row a citation names.
CitedRow(c) == CHOOSE row \in {store[k] : k \in 1..Len(store)} : row.id = c.id

\* The context instruction lists the cited chunks in citation order, each
\* under its source and chunk index.
ContextListsCitations(context, citations) ==
    /\ Len(context) = Len(citations)
    /\ \A i \in 1..Len(citations) :
           /\ context[i].source = citations[i].source
           /\ context[i].chunk_index = citations[i].chunkIndex
           /\ context[i].content = CitedRow(citations[i]).content

\* C26: what a chat request sends to the completion provider is the fixed
\* system instruction, then the retrieval-context instruction if and only
\* if something was retrieved (never more than one), then the request's
\* own messages, all of them, in their order and as they came; the context
\* instruction lists exactly the cited chunks in citation order, each
\* labelled with its source and chunk index.
C26_MessageSetLayout ==
    \A r \in Slots :
        (req[r].kind = "chat" /\ req[r].chatCalls >= 1) =>
            LET sent == req[r].sent
                own == req[r].body.messages.list
                c == req[r].citations
            IN  /\ sent[1] = SystemPrompt
                /\ Cardinality({k \in 1..Len(sent) : sent[k].role = "system"})
                       = IF Len(c) > 0 THEN 2 ELSE 1
                /\ Len(c) = 0 =>
                       /\ Len(sent) = Len(own) + 1
                       /\ SubSeq(sent, 2, Len(sent)) = own
                /\ Len(c) > 0 =>
                       /\ Len(sent) = Len(own) + 2
                       /\ sent[2].role = "system" /\ sent[2].content = "USE_CONTEXT"
                       /\ ContextListsCitations(sent[2].context, c)
                       /\ SubSeq(sent, 3, Len(sent)) = own

\* A conversation of three messages has been sent behind a context
\* instruction that lists two chunks.
C26_Witness ==
    \E r \in Slots :
        /\ req[r].kind = "chat" /\ req[r].chatCalls = 1
        /\ Len(req[r].body.messages.list) = 3
        /\ Len(req[r].citations) = 2
        /\ req[r].citations[1].id > req[r].citations[2].id
        /\ Len(req[r].sent) = 5

\* The numbers of rows that whole batches of succeeded ingest calls add up to.
WholeBatchSizes == {RowsPersisted(S) : S \in SUBSET {p \in Slots : IngestSucceeded(p)}}

\* The rows the scan of chat request r returned (line 351).
ScanOf(r) == req[r].rows

FromSucceededIngest(row) ==
    \E p \in Slots :
        /\ IngestSucceeded(p)
        /\ \E j \in 1..Len(req[p].rows) : SameRow(row, req[p].rows[j])

\* C27: the scan of a chat request that runs while ingest requests are in
\* progress sees whole batches only.  From an empty table, what it
\* returned is made of all the rows of some ingest calls that have
\* succeeded and of no row of any other call, and every citation names a
\* row of an ingest call that succeeded.
C27_ScanSeesWholeBatches ==
    \A r \in Slots :
        (Retrieves(r) /\ req[r].chatCalls >= 1) =>
            /\ Len(ScanOf(r)) \in WholeBatchSizes
            /\ Len(ScanOf(r)) <= Len(store)
            /\ SubSeq(store, 1, Len(ScanOf(r))) = ScanOf(r)
            /\ \A k \in 1..Len(ScanOf(r)) : FromSucceededIngest(ScanOf(r)[k])
            /\ \A i \in 1..Len(req[r].citations) :
                   \E k \in 1..Len(ScanOf(r)) :
                       /\ ScanOf(r)[k].id = req[r].citations[i].id
                       /\ FromSucceededIngest(ScanOf(r)[k])

\* A chat request scanned an empty table while an ingest request had
\* embedded one of its two chunks; the ingest has since stored both.
C27_Witness ==
    \E r, p \in Slots :
        /\ Retrieves(r) /\ req[r].chatCalls >= 1 /\ ScanOf(r) = <<>>
        /\ req[p].kind = "ingest" /\ req[p].requestId < req[r].requestId
        /\ IngestSucceeded(p) /\ Len(store) = 2

\* The stage the handler of chat request r is in: received and validated
\* in one step, then Retrieving, Completing, and responded.
Stage(q) ==
    CASE q.pc = "idle" -> 0
      [] q.pc \in {"embed_fetch", "embed_body"} -> 1
      [] q.pc \in {"chat_fetch", "chat_body"} -> 2
      [] OTHER -> 3

TerminalResponse(resp) ==
    \/ resp.status = 200 /\ resp.code = "OK"
    \/ /\ resp.status \in {400, 500, 502}
       /\ resp.code \in {"BAD_REQUEST", "MISSING_API_KEY", "UPSTREAM_ERROR",
                         "BAD_UPSTREAM_RESPONSE", "INTERNAL_ERROR"}

ChatStagesInOrder(r) ==
    /\ Len(req[r].responses) <= 1
    /\ Finished(r) <=> Len(req[r].responses) = 1
    /\ Finished(r) => TerminalResponse(Resp(r))
    /\ FailsValidation(r) => Finished(r) /\ req[r].embedCalls = 0 /\ req[r].chatCalls = 0
    /\ Stage(req[r]) = 1 => Retrieves(r) /\ req[r].chatCalls = 0
    /\ Stage(req[r]) = 2 => req[r].chatCalls = 1
    /\ (Finished(r) /\ Resp(r).status = 200) =>
           /\ req[r].chatCalls = 1
           /\ Retrieves(r) => req[r].embedCalls = 1

\* C28: every chat request goes through Validating, Retrieving if it
\* retrieves, Completing and Responding in that order and never back,
\* sends exactly one response when it ends, a success or a failure of one
\* kind, and takes no further step once it has responded.
C28_StageOrderOneResponse ==
    /\ [](\A r \in Slots : req[r].kind = "chat" => ChatStagesInOrder(r))
    /\ [][\A r \in Slots :
              /\ req[r].kind = "chat" => Stage(req'[r]) >= Stage(req[r])
              /\ (req[r].kind = "chat" /\ Finished(r)) => req'[r] = req[r]]_vars

\* A chat request has gone through retrieval and the completion call in
\* that order and has responded once, with a success.
C28_Witness ==
    \E r \in Slots :
        /\ req[r].kind = "chat" /\ Finished(r) /\ Resp(r).status = 200
        /\ Retrieves(r) /\ req[r].embedCalls = 1 /\ req[r].chatCalls = 1
        /\ Len(req[r].responses) = 1

\* C29: a successful chat response cites, in retrieval order, one entry
\* per retrieved chunk and nothing else: each citation's id, source and
\* chunkIndex are those of one row the scan returned, no row is cited
\* twice, the list is the one retrieval produced, and the chat request
\* has left the table as it was (with one request at a time, no step of
\* a chat request changes the table).
C29_CitationsAreScannedRows ==
    /\ [][(\E r \in Slots : req'[r].kind = "chat") => store' = store]_vars
    /\ [](\A r \in Slots :
        (req[r].kind = "chat" /\ Finished(r) /\ Resp(r).status = 200) =>
            LET c == Resp(r).citations
            IN  /\ c = req[r].citations
                /\ Len(c) = Len(req[r].ragContext)
                /\ ~Retrieves(r) => c = <<>>
                /\ \A i \in 1..Len(c) :
                       \E k \in 1..Len(ScanOf(r)) :
                           /\ ScanOf(r)[k].id = c[i].id
                           /\ ScanOf(r)[k].source = c[i].source
                           /\ ScanOf(r)[k].chunk_index = c[i].chunkIndex
                           /\ Qualifies(req[r].queryEmbedding, ScanOf(r)[k])
                /\ \A i, j \in 1..Len(c) : c[i].id = c[j].id => i = j
                /\ \A i \in 1..(Len(c) - 1) : ~ScoreLess(c[i].score, c[i + 1].score)
                /\ Retrieves(r) => ScanOf(r) = store)

\* A successful answer cites two of the three rows of the table.
C29_Witness ==
    \E r \in Slots :
        /\ req[r].kind = "chat" /\ Finished(r) /\ Resp(r).status = 200
        /\ Len(store) = 3
        /\ Len(Resp(r).citations) = 2
        /\ Resp(r).citations[1].id # Resp(r).citations[2].id

====
